---------------------------- MODULE Spec2Model ----------------------------
(***************************************************************************)
(* A model of rdtools/normalization.py: the PVWatts DC power model, the    *)
(* SAPM DC power pipeline and the two normalization entry points.          *)
(*                                                                         *)
(* Time is counted in hours.  A Series is a record [idx, val]: idx is the  *)
(* set of its timestamps (kept in ascending order, as a DatetimeIndex the  *)
(* code resamples is), val maps a timestamp to a floating-point value.     *)
(*                                                                         *)
(* Floating point is a small binary format: a value is n / Scale with n an *)
(* integer of at most MantBits significant bits; every arithmetic result   *)
(* is rounded to the nearest such value, ties to even, and division by     *)
(* zero gives inf or nan as numpy's float division does.                   *)
(***************************************************************************)
EXTENDS Integers, Sequences, FiniteSets, TLC

\* Significant bits of the floating-point format (binary64 has 53).
MantBits == 14
\* Fractional bits of the smallest exponent: values are multiples of 1 / Scale.
FracBits == 2

\* Hours in a day: resample anchors its bins at the midnight of the first sample.
HoursPerDay == 24
\* Days in a week: the weekly frequencies 'W-<weekday>'.
DaysPerWeek == 7

RECURSIVE Pow2(_)
Pow2(k) == IF k = 0 THEN 1 ELSE 2 * Pow2(k - 1)

Scale == Pow2(FracBits)
MantLimit == Pow2(MantBits)

Abs(a) == IF a < 0 THEN -a ELSE a
Sign(a) == IF a < 0 THEN -1 ELSE 1

(***************************************************************************)
(* Floating-point values.                                                  *)
(***************************************************************************)
Num(n) == [k |-> "num", n |-> n]
NaN == [k |-> "nan", n |-> 0]
Inf(s) == [k |-> "inf", n |-> s]
\* The Python value None where a float is optional.
NoneF == [k |-> "none", n |-> 0]

IsNum(x) == x.k = "num"
IsNaN(x) == x.k = "nan"

\* The exponent of the quotient q: the least e with q / 2^e below 2^MantBits.
RECURSIVE Expo(_, _)
Expo(q, e) == IF q \div Pow2(e) < MantLimit THEN e ELSE Expo(q, e + 1)

\* The float nearest to a / d units (d > 0), ties to even.
Round(a, d) ==
    LET e == Expo(Abs(a) \div d, 0)
        D == d * Pow2(e)
        m == Abs(a) \div D
        r == Abs(a) % D
        up == (2 * r > D) \/ (2 * r = D /\ m % 2 = 1)
    IN  Sign(a) * (IF up THEN m + 1 ELSE m) * Pow2(e)

\* Whether a / d units is a value of the format, so that no rounding happens.
Exact(a, d) == a % d = 0 /\ Round(a, d) * d = a

FMul(x, y) ==
    IF IsNaN(x) \/ IsNaN(y) THEN NaN
    ELSE IF IsNum(x) /\ IsNum(y) THEN Num(Round(x.n * y.n, Scale))
    ELSE IF (IsNum(x) /\ x.n = 0) \/ (IsNum(y) /\ y.n = 0) THEN NaN
    ELSE Inf(Sign(x.n) * Sign(y.n))

FDiv(x, y) ==
    IF IsNaN(x) \/ IsNaN(y) THEN NaN
    ELSE IF IsNum(x) /\ IsNum(y)
         THEN IF y.n = 0
              THEN IF x.n = 0 THEN NaN ELSE Inf(Sign(x.n))
              ELSE Num(Round(Sign(y.n) * x.n * Scale, Abs(y.n)))
    ELSE IF IsNum(x) THEN Num(0)
    ELSE IF IsNum(y) THEN Inf(Sign(x.n) * Sign(y.n))
    ELSE NaN

FAdd(x, y) ==
    IF IsNaN(x) \/ IsNaN(y) THEN NaN
    ELSE IF IsNum(x) /\ IsNum(y) THEN Num(Round(x.n + y.n, 1))
    ELSE IF IsNum(x) THEN y
    ELSE IF IsNum(y) THEN x
    ELSE IF x.n = y.n THEN x ELSE NaN

FNeg(x) == IF IsNaN(x) THEN NaN ELSE [k |-> x.k, n |-> -x.n]

FSub(x, y) == FAdd(x, FNeg(y))

(***************************************************************************)
(* Series.                                                                 *)
(***************************************************************************)
\* The Python value None where a Series is optional.
NoneS == [idx |-> {-1}, val |-> [t \in {-1} |-> NoneF]]

\* number * Series and Series / number: element-wise on the same index.
ScalarMul(c, s) == [idx |-> s.idx, val |-> [t \in s.idx |-> FMul(c, s.val[t])]]
ScalarDiv(s, c) == [idx |-> s.idx, val |-> [t \in s.idx |-> FDiv(s.val[t], c)]]
ScalarSub(s, c) == [idx |-> s.idx, val |-> [t \in s.idx |-> FSub(s.val[t], c)]]
ScalarRAdd(c, s) == [idx |-> s.idx, val |-> [t \in s.idx |-> FAdd(c, s.val[t])]]

\* Series op Series: pandas aligns the operands on the union of their
\* indexes; a timestamp one operand lacks gives nan.
AlignedIndex(a, b) == a.idx \cup b.idx

SeriesMul(a, b) ==
    LET idx == AlignedIndex(a, b)
    IN  [idx |-> idx,
         val |-> [t \in idx |-> IF t \in a.idx /\ t \in b.idx
                                THEN FMul(a.val[t], b.val[t]) ELSE NaN]]

\* A faulty variant: a timestamp one operand lacks filled with 0 (fill_value=0).
SeriesDivFilled(a, b) ==
    LET idx == AlignedIndex(a, b)
    IN  [idx |-> idx,
         val |-> [t \in idx |-> FDiv(IF t \in a.idx THEN a.val[t] ELSE Num(0),
                                     IF t \in b.idx THEN b.val[t] ELSE Num(0))]]

SeriesDiv(a, b) ==
    LET idx == AlignedIndex(a, b)
    IN  [idx |-> idx,
         val |-> [t \in idx |-> IF t \in a.idx /\ t \in b.idx
                                THEN FDiv(a.val[t], b.val[t]) ELSE NaN]]

(***************************************************************************)
(* pvwatts_dc_power                                                        *)
(***************************************************************************)
\* A faulty variant: `or` for `and`; gamma_pdc * (T_cell - T_stc) is then evaluated
\* with a None operand.
TemperatureAppliesEither(T_cell, gamma_pdc) == T_cell # NoneS \/ gamma_pdc # NoneF

\* The temperature term is applied only when T_cell and gamma_pdc are both
\* given.
TemperatureApplies(T_cell, gamma_pdc) == T_cell # NoneS /\ gamma_pdc # NoneF

TemperatureFactor(T_cell, T_stc, gamma_pdc) ==
    ScalarRAdd(Num(Scale), ScalarMul(gamma_pdc, ScalarSub(T_cell, T_stc)))

\* A faulty variant: the division by G_stc forgotten.
BasePowerUndivided(poa_global, P_stc, G_stc) == ScalarMul(P_stc, poa_global)

\* A faulty variant: the power clipped at the nameplate.
BasePowerClipped(poa_global, P_stc, G_stc) ==
    LET s == ScalarDiv(ScalarMul(P_stc, poa_global), G_stc)
    IN  [idx |-> s.idx,
         val |-> [t \in s.idx |-> IF IsNum(s.val[t]) /\ s.val[t].n > P_stc.n
                                  THEN P_stc ELSE s.val[t]]]

\* dc_power = P_stc * poa_global / G_stc
BasePower(poa_global, P_stc, G_stc) == ScalarDiv(ScalarMul(P_stc, poa_global), G_stc)

\* A call's outcome: ok says whether it returned, out is the returned Series.
Returned(s) == [ok |-> TRUE, out |-> s]
Raised == [ok |-> FALSE, out |-> NoneS]

pvwatts_dc_power(poa_global, P_stc, T_cell, G_stc, T_stc, gamma_pdc) ==
    LET dc_power == BasePower(poa_global, P_stc, G_stc)
    IN  IF TemperatureApplies(T_cell, gamma_pdc)
        THEN IF T_cell = NoneS \/ gamma_pdc = NoneF
             THEN Raised   \* arithmetic on None: TypeError
             ELSE Returned(SeriesMul(dc_power,
                                     TemperatureFactor(T_cell, T_stc, gamma_pdc)))
        ELSE Returned(dc_power)

(***************************************************************************)
(* Frequencies: a fixed number of hours ('H', 'D' and their multiples) or  *)
(* a number of weeks anchored on a weekday ('W-MON', ...).                 *)
(***************************************************************************)
Tick(n) == [kind |-> "tick", n |-> n, wd |-> 0]
Week(n, wd) == [kind |-> "week", n |-> n, wd |-> wd]
\* energy.index.freq is None, and what infer_freq returns when it finds no
\* frequency.
NoFreq == [kind |-> "none", n |-> 0, wd |-> 0]
\* infer_freq raising ValueError.
FreqError == [kind |-> "error", n |-> 0, wd |-> 0]

HoursPerWeek == HoursPerDay * DaysPerWeek

Min(S) == CHOOSE x \in S : \A y \in S : x <= y
Max(S) == CHOOSE x \in S : \A y \in S : x >= y

DayOf(t) == t \div HoursPerDay
Weekday(t) == DayOf(t) % DaysPerWeek

\* The differences between consecutive timestamps of an index.
Deltas(idx) ==
    {t - Max({u \in idx : u < t}) : t \in {v \in idx : v # Min(idx)}}

\* pd.infer_freq: ValueError with fewer than 3 timestamps, None when the
\* spacing is not constant, else the frequency of the constant spacing; a
\* spacing of whole weeks is a weekly frequency anchored on the weekday of the
\* timestamps.
infer_freq(idx) ==
    IF Cardinality(idx) < 3 THEN FreqError
    ELSE IF Cardinality(Deltas(idx)) # 1 THEN NoFreq
    ELSE LET d == CHOOSE x \in Deltas(idx) : TRUE
         IN  IF d % HoursPerWeek = 0
             THEN Week(d \div HoursPerWeek, Weekday(Min(idx)))
             ELSE Tick(d)

\* A faulty variant: the frequency always inferred.
ResolveFrequencyInferring(energy) == infer_freq(energy.idx)

\* A faulty variant: a daily frequency assumed when inference finds none.
ResolveFrequencyDefaulting(energy) ==
    IF energy.freq # NoFreq THEN energy.freq
    ELSE IF infer_freq(energy.idx) = NoFreq THEN Tick(HoursPerDay)
    ELSE infer_freq(energy.idx)

\* The explicit frequency wins; inference only without one.
ResolveFrequency(energy) ==
    IF energy.freq = NoFreq THEN infer_freq(energy.idx) ELSE energy.freq

(***************************************************************************)
(* dc_power.resample(freq).sum()                                           *)
(***************************************************************************)
\* The midnight of the first day on or after the day of t whose weekday is wd.
NextAnchor(t, wd) ==
    (DayOf(t) + ((wd - Weekday(t) + DaysPerWeek) % DaysPerWeek)) * HoursPerDay

\* The label of the first bin.  A fixed frequency counts its bins from the
\* midnight of the first sample's day; a weekly one labels a bin by the anchor
\* day that ends it.
FirstLabel(freq, first) ==
    IF freq.kind = "tick"
    THEN first - ((first - DayOf(first) * HoursPerDay) % freq.n)
    ELSE NextAnchor(first, freq.wd)

BinWidth(freq) == IF freq.kind = "tick" THEN freq.n ELSE freq.n * HoursPerWeek

\* The label of the bin that holds the sample at t.  A fixed frequency closes
\* and labels its bins on the left, [label, label + n); a weekly one on the
\* right: the bin labelled L holds the days that end with the day L.
BinLabel(freq, first, t) ==
    LET base == FirstLabel(freq, first)
        w == BinWidth(freq)
    IN  IF freq.kind = "tick"
        THEN base + ((t - base) \div w) * w
        ELSE base + ((NextAnchor(t, freq.wd) - base + w - 1) \div w) * w

BinLabels(freq, idx) ==
    LET first == Min(idx)
        base == FirstLabel(freq, first)
        w == BinWidth(freq)
        last == BinLabel(freq, first, Max(idx))
    IN  {base + k * w : k \in 0..((last - base) \div w)}

\* The sum of the values at the timestamps of S, added in time order; an empty
\* bin sums to 0.
RECURSIVE SumOver(_, _, _)
SumOver(s, S, acc) ==
    IF S = {} THEN acc
    ELSE LET t == Min(S) IN SumOver(s, S \ {t}, FAdd(acc, s.val[t]))

\* A faulty variant: the last sample of each bin for their sum (.last() for .sum()).
ResampleLast(s, freq) ==
    LET first == Min(s.idx)
        labels == BinLabels(freq, s.idx)
        bin(L) == {t \in s.idx : BinLabel(freq, first, t) = L}
    IN  [idx |-> labels,
         val |-> [L \in labels |-> IF bin(L) = {} THEN Num(0) ELSE s.val[Max(bin(L))]]]

ResampleSum(s, freq) ==
    LET first == Min(s.idx)
        labels == BinLabels(freq, s.idx)
    IN  [idx |-> labels,
         val |-> [L \in labels |->
                    SumOver(s, {t \in s.idx : BinLabel(freq, first, t) = L}, Num(0))]]

\* resample(None) raises: there is no frequency to build the bins from.
CanResample(freq) == freq.kind \in {"tick", "week"}

(***************************************************************************)
(* sapm_dc_power: the calls made on the injected modeling capability, in   *)
(* the order the function makes them.  An argument is named by the value   *)
(* it is read from (src) and the key read (key); the frame passed in is    *)
(* "poa_global", the system object "pvlib_pvsystem".                       *)
(***************************************************************************)
Arg(src, key) == [src |-> src, key |-> key]
Call(op, args, param, out) == [op |-> op, args |-> args, param |-> param, out |-> out]

Columns == {"DNI", "GHI", "DHI", "Wind Speed", "Temperature"}

SolarPosition ==
    Call("get_solarposition", <<Arg("poa_global", "index")>>, "", "solar_position")
TotalIrradiance ==
    Call("get_poa_global",
         <<Arg("solar_position", "zenith"), Arg("solar_position", "azimuth"),
           Arg("poa_global", "DNI"), Arg("poa_global", "GHI"),
           Arg("poa_global", "DHI")>>, "", "total_irradiance")
Aoi ==
    Call("get_aoi",
         <<Arg("solar_position", "zenith"), Arg("solar_position", "azimuth")>>,
         "", "aoi")
Airmass ==
    Call("get_airmass", <<Arg("solar_position", "")>>, "model=kastenyoung1989",
         "airmass")
EffectivePoa ==
    Call("sapm_effective_poa_global",
         <<Arg("total_irradiance", "poa_direct"), Arg("total_irradiance", "poa_diffuse"),
           Arg("airmass", "airmass_absolute"), Arg("aoi", ""),
           Arg("pvlib_pvsystem", "module")>>,
         "reference_poa_global=1", "effective_poa")
TempCell ==
    Call("sapm_celltemp",
         <<Arg("total_irradiance", "poa_global"), Arg("poa_global", "Wind Speed"),
           Arg("poa_global", "Temperature")>>, "", "temp_cell")
DcPower ==
    Call("pvwatts_dc", <<Arg("effective_poa", ""), Arg("temp_cell", "temp_cell")>>,
         "", "dc_power")

\* A faulty variant: the cell temperature modeled before the effective irradiance.
PipelineTempCellEarly ==
    <<SolarPosition, TotalIrradiance, Aoi, Airmass, TempCell, EffectivePoa, DcPower>>

Pipeline ==
    <<SolarPosition, TotalIrradiance, Aoi, Airmass, EffectivePoa, TempCell, DcPower>>

\* A faulty variant: a missing ambient temperature read as a default (frame.get).
ArgReadableDefaulting(pvlib_pvsystem, frame, a) ==
    /\ (a.src = "poa_global" /\ a.key \in Columns \ {"Temperature"})
          => a.key \in frame.cols
    /\ (a.src = "pvlib_pvsystem" /\ a.key = "module") => pvlib_pvsystem.module

\* Reading an argument raises KeyError for a column the frame lacks and
\* AttributeError for an attribute the system lacks.
ArgReadable(pvlib_pvsystem, frame, a) ==
    /\ (a.src = "poa_global" /\ a.key \in Columns) => a.key \in frame.cols
    /\ (a.src = "pvlib_pvsystem" /\ a.key = "module") => pvlib_pvsystem.module

CallReadable(pvlib_pvsystem, frame, c) ==
    \A i \in 1..Len(c.args) : ArgReadable(pvlib_pvsystem, frame, c.args[i])

\* The stages run in order; a stage whose arguments cannot be read raises
\* before it is invoked and nothing after it runs.
RECURSIVE RunPipeline(_, _, _, _)
RunPipeline(pvlib_pvsystem, frame, i, calls) ==
    IF i > Len(Pipeline) THEN [ok |-> TRUE, calls |-> calls]
    ELSE IF ~CallReadable(pvlib_pvsystem, frame, Pipeline[i])
         THEN [ok |-> FALSE, calls |-> calls]
         ELSE RunPipeline(pvlib_pvsystem, frame, i + 1, Append(calls, Pipeline[i]))

\* The Series the system's pvwatts_dc answers with, indexed like the frame.
sapm_dc_power(pvlib_pvsystem, frame) ==
    LET run == RunPipeline(pvlib_pvsystem, frame, 1, <<>>)
    IN  [ok |-> run.ok,
         calls |-> run.calls,
         out |-> IF run.ok
                 THEN [idx |-> frame.idx,
                       val |-> [t \in frame.idx |-> pvlib_pvsystem.pvwatts_dc]]
                 ELSE NoneS]

(***************************************************************************)
(* The inputs the calls are made with.                                     *)
(***************************************************************************)
\* The float of a whole number, and of a whole number and a half or quarters.
W(x) == Num(x * Scale)
WQ(x, quarters) == Num(x * Scale + quarters * (Scale \div 4))

\* The timestamps start, start + step, ... (count of them), without the
\* drop-th one when drop > 0.
Stamps(start, step, count, drop) ==
    {start + i * step : i \in (0..(count - 1)) \ {drop - 1}}

\* A Series whose values alternate between a and b along the index.
Alternating(idx, a, b) ==
    [idx |-> idx,
     val |-> [t \in idx |-> IF Cardinality({u \in idx : u < t}) % 2 = 0 THEN a ELSE b]]

Constant(idx, a) == Alternating(idx, a, a)

\* pvwatts_dc_power called on its own: two samples.
PowerValues == {W(300), W(250), WQ(1234, 2), Num(MantLimit - 1), WQ(0, 1)}
ReferenceValues == {W(1000), W(3), WQ(0, 3), WQ(1, 1)}
IrradianceValues == ReferenceValues \cup {W(0), WQ(100, 2), WQ(333, 1), W(500)}
TemperatureValues == {W(25), W(20)}
CellTemperatures == {W(25), W(26)}
GammaValues == {FNeg(WQ(0, 1)), WQ(0, 2)}

DirectKws ==
    {[poa_global |-> Alternating({0, 1}, a, b), P_stc |-> P, T_cell |-> Tc,
      G_stc |-> G, T_stc |-> Ts, gamma_pdc |-> g] :
        a \in IrradianceValues, b \in {W(0), W(500)}, P \in PowerValues,
        G \in ReferenceValues, Ts \in TemperatureValues,
        Tc \in {NoneS} \cup {Constant({0, 1}, c) : c \in CellTemperatures},
        g \in {NoneF} \cup GammaValues}

\* The modeled series of the normalizations: <<start, step, count>> in hours.
PoaShapes ==
    {<<0, 1, 24>>, <<0, 1, 48>>, <<0, 12, 4>>, <<12, 12, 3>>, <<0, 6, 8>>,
     <<0, 24, 3>>, <<24, 24, 2>>, <<0, 24, 21>>}
PoaIndexes == {Stamps(sh[1], sh[2], sh[3], drop) : sh \in PoaShapes, drop \in {0, 2}}

NormalizeKws ==
    {[poa_global |-> Alternating(idx, W(1000), b), P_stc |-> W(300),
      T_cell |-> IF warm THEN Constant(idx, W(26)) ELSE NoneS,
      G_stc |-> W(1000), T_stc |-> W(25),
      gamma_pdc |-> IF warm THEN FNeg(WQ(0, 1)) ELSE NoneF] :
        idx \in PoaIndexes, b \in {W(1000), W(0)}, warm \in BOOLEAN}

\* The energy series: <<start, step, count>> in hours, an explicit frequency
\* or none, and the measured values.
EnergyShapes ==
    {<<0, 24, 1>>, <<0, 24, 3>>, <<0, 24, 4>>, <<12, 24, 3>>, <<0, 1, 3>>,
     <<0, 12, 4>>, <<144, 168, 3>>}
ExplicitFreqs == {NoFreq, Tick(1), Tick(HoursPerDay), Tick(HoursPerWeek), Week(1, 6)}
Energies ==
    {[idx |-> idx, val |-> Alternating(idx, W(7200), b).val, freq |-> f] :
        idx \in {Stamps(sh[1], sh[2], sh[3], drop) : sh \in EnergyShapes, drop \in {0, 2}},
        b \in {W(7200), W(0)}, f \in ExplicitFreqs}

NoEnergy == [idx |-> {-1}, val |-> [t \in {-1} |-> NoneF], freq |-> NoFreq]

\* The SAPM inputs: the frame's index and columns, whether the system has a
\* module attribute, and the DC power its pvwatts_dc answers with.
Frames(indexes) == {[idx |-> idx, cols |-> c] : idx \in indexes, c \in SUBSET Columns}
Systems == {[module |-> m, pvwatts_dc |-> v] : m \in BOOLEAN, v \in {W(300), W(0)}}
SapmKws(indexes) ==
    {[pvlib_pvsystem |-> sys, poa_global |-> fr] : sys \in Systems, fr \in Frames(indexes)}

NoSapmKws ==
    [pvlib_pvsystem |-> [module |-> FALSE, pvwatts_dc |-> NoneF],
     poa_global |-> [idx |-> {-1}, cols |-> {}]]
NoPvwattsKws ==
    [poa_global |-> NoneS, P_stc |-> NoneF, T_cell |-> NoneS, G_stc |-> NoneF,
     T_stc |-> NoneF, gamma_pdc |-> NoneF]

(***************************************************************************)
(* The calls.                                                              *)
(***************************************************************************)
VARIABLES
    op,                 \* the function called
    energy,             \* the energy argument of a normalization
    pvwatts_kws,        \* the arguments of pvwatts_dc_power
    sapm_kws,           \* the arguments of sapm_dc_power
    pc,                 \* where the call is: start, freq, dc, resampled, returned, raised
    freq,               \* the local freq
    dc_power,           \* the local dc_power
    energy_dc,          \* the local energy_dc
    result,             \* the Series returned to the caller, NoneS until then
    raised_at,          \* the step that raised: freq, dc, resample
    calls               \* the calls made on the modeling capability

vars == <<op, energy, pvwatts_kws, sapm_kws, pc, freq, dc_power, energy_dc,
          result, raised_at, calls>>

Locals ==
    /\ pc = "start" /\ freq = NoFreq /\ dc_power = NoneS /\ energy_dc = NoneS
    /\ result = NoneS /\ raised_at = "" /\ calls = <<>>

Init ==
    /\ Locals
    /\ \/ /\ op = "pvwatts_dc_power"
          /\ pvwatts_kws \in DirectKws
          /\ energy = NoEnergy /\ sapm_kws = NoSapmKws
       \/ /\ op = "normalize_with_pvwatts"
          /\ pvwatts_kws \in NormalizeKws
          /\ energy \in Energies /\ sapm_kws = NoSapmKws
       \/ /\ op = "sapm_dc_power"
          /\ sapm_kws \in SapmKws({{0, 1}})
          /\ energy = NoEnergy /\ pvwatts_kws = NoPvwattsKws
       \/ /\ op = "normalize_with_sapm"
          /\ sapm_kws \in SapmKws({Stamps(0, 12, 4, 0)})
          /\ energy \in Energies /\ pvwatts_kws = NoPvwattsKws

Inputs == <<op, energy, pvwatts_kws, sapm_kws>>

PvwattsCall ==
    pvwatts_dc_power(pvwatts_kws.poa_global, pvwatts_kws.P_stc, pvwatts_kws.T_cell,
                     pvwatts_kws.G_stc, pvwatts_kws.T_stc, pvwatts_kws.gamma_pdc)

SapmCall == sapm_dc_power(sapm_kws.pvlib_pvsystem, sapm_kws.poa_global)

\* pvwatts_dc_power(...) called by the user.
CallPvwattsDcPower ==
    /\ op = "pvwatts_dc_power" /\ pc = "start"
    /\ pc' = IF PvwattsCall.ok THEN "returned" ELSE "raised"
    /\ raised_at' = IF PvwattsCall.ok THEN "" ELSE "dc"
    /\ result' = PvwattsCall.out
    /\ UNCHANGED <<Inputs, freq, dc_power, energy_dc, calls>>

\* sapm_dc_power(...) called by the user.
CallSapmDcPower ==
    /\ op = "sapm_dc_power" /\ pc = "start"
    /\ pc' = IF SapmCall.ok THEN "returned" ELSE "raised"
    /\ raised_at' = IF SapmCall.ok THEN "" ELSE "dc"
    /\ result' = SapmCall.out
    /\ calls' = SapmCall.calls
    /\ UNCHANGED <<Inputs, freq, dc_power, energy_dc>>

Normalizing == op \in {"normalize_with_pvwatts", "normalize_with_sapm"}

\* normalize_with_*: the frequency of the energy series.
ResolveFreq ==
    /\ Normalizing /\ pc = "start"
    /\ freq' = ResolveFrequency(energy)
    /\ pc' = IF freq' = FreqError THEN "raised" ELSE "freq"
    /\ raised_at' = IF freq' = FreqError THEN "freq" ELSE ""
    /\ UNCHANGED <<Inputs, dc_power, energy_dc, result, calls>>

\* normalize_with_pvwatts: dc_power = pvwatts_dc_power(**pvwatts_kws).
ModelWithPvwatts ==
    /\ op = "normalize_with_pvwatts" /\ pc = "freq"
    /\ pc' = IF PvwattsCall.ok THEN "dc" ELSE "raised"
    /\ raised_at' = IF PvwattsCall.ok THEN "" ELSE "dc"
    /\ dc_power' = PvwattsCall.out
    /\ UNCHANGED <<Inputs, freq, energy_dc, result, calls>>

\* normalize_with_sapm: dc_power = sapm_dc_power(**sapm_kws).
ModelWithSapm ==
    /\ op = "normalize_with_sapm" /\ pc = "freq"
    /\ pc' = IF SapmCall.ok THEN "dc" ELSE "raised"
    /\ raised_at' = IF SapmCall.ok THEN "" ELSE "dc"
    /\ dc_power' = SapmCall.out
    /\ calls' = SapmCall.calls
    /\ UNCHANGED <<Inputs, freq, energy_dc, result>>

\* normalize_with_*: energy_dc = dc_power.resample(freq).sum().
Resample ==
    /\ Normalizing /\ pc = "dc"
    /\ pc' = IF CanResample(freq) THEN "resampled" ELSE "raised"
    /\ raised_at' = IF CanResample(freq) THEN "" ELSE "resample"
    /\ energy_dc' = IF CanResample(freq) THEN ResampleSum(dc_power, freq) ELSE NoneS
    /\ UNCHANGED <<Inputs, freq, dc_power, result, calls>>

\* normalize_with_*: normalized_energy = energy / energy_dc, returned.
Divide ==
    /\ Normalizing /\ pc = "resampled"
    /\ pc' = "returned"
    /\ result' = SeriesDiv(energy, energy_dc)
    /\ UNCHANGED <<Inputs, freq, dc_power, energy_dc, raised_at, calls>>

Next ==
    \/ CallPvwattsDcPower
    \/ CallSapmDcPower
    \/ ResolveFreq
    \/ ModelWithPvwatts
    \/ ModelWithSapm
    \/ Resample
    \/ Divide

Spec == Init /\ [][Next]_vars

(***************************************************************************)
(* The claims.                                                             *)
(***************************************************************************)
Terminal == pc \in {"returned", "raised"}

\* C1: whenever a normalization returns, the index of the returned series is
\* exactly the index of the energy series: no timestamp added, none dropped.
C1_IndexIsEnergyIndex ==
    (Normalizing /\ pc = "returned") => result.idx = energy.idx

\* C2: pvwatts_dc_power with only one of T_cell and gamma_pdc given returns,
\* and returns what it returns with both omitted.
C2_PartialTemperatureIgnored ==
    (op = "pvwatts_dc_power" /\ Terminal
       /\ (pvwatts_kws.T_cell = NoneS \/ pvwatts_kws.gamma_pdc = NoneF))
    => /\ pc = "returned"
       /\ result = pvwatts_dc_power(pvwatts_kws.poa_global, pvwatts_kws.P_stc, NoneS,
                                    pvwatts_kws.G_stc, pvwatts_kws.T_stc, NoneF).out

C2_Witness ==
    /\ op = "pvwatts_dc_power" /\ pc = "returned"
    /\ pvwatts_kws.T_cell # NoneS /\ pvwatts_kws.gamma_pdc = NoneF
    /\ \E t \in result.idx : result.val[t] # Num(0)

\* C3: an explicit frequency of the energy series is the frequency the modeled
\* power is resampled with, and nothing is inferred then, whatever inference
\* would give; the frequency is inferred only when none is set.
C3_ExplicitFrequencyWins ==
    (Normalizing /\ pc # "start")
    => /\ energy.freq # NoFreq =>
            /\ freq = energy.freq
            /\ raised_at # "freq"
            /\ (pc \in {"resampled", "returned"} =>
                   energy_dc = ResampleSum(dc_power, energy.freq))
       /\ energy.freq = NoFreq => freq = infer_freq(energy.idx)

C3_Witness ==
    /\ Normalizing /\ pc = "returned"
    /\ energy.freq # NoFreq
    /\ infer_freq(energy.idx) \notin {NoFreq, FreqError, energy.freq}
    /\ energy_dc # ResampleSum(dc_power, infer_freq(energy.idx))

\* The spacing of the index is irregular: inference finds no frequency.
Irregular(idx) == Cardinality(idx) >= 3 /\ Cardinality(Deltas(idx)) > 1

HasGaps(idx) == Cardinality(Deltas(idx)) > 1

\* A position of the result where energy and modeled energy meet.
Aligned(t) == t \in energy.idx /\ t \in energy_dc.idx

RatioOver(t, S) == FDiv(energy.val[t], SumOver(dc_power, S, Num(0)))

\* The samples in the interval of the frequency's width that starts at t.
StartingAt(t) == {u \in dc_power.idx : t <= u /\ u < t + BinWidth(freq)}

\* The samples in the weeks that end with the day t.
EndingWithDay(t) ==
    {u \in dc_power.idx : t + HoursPerDay - BinWidth(freq) <= u /\ u < t + HoursPerDay}

\* The nameplate scenario: 24 hourly samples of 1000 W/m2, P_stc = 300, no
\* temperature arguments, one day of 7200 measured.
Scenario ==
    /\ op = "normalize_with_pvwatts"
    /\ pvwatts_kws.poa_global = Constant(0..23, W(1000))
    /\ pvwatts_kws.P_stc = W(300) /\ pvwatts_kws.G_stc = W(1000)
    /\ pvwatts_kws.T_cell = NoneS /\ pvwatts_kws.gamma_pdc = NoneF
    /\ energy.idx = {0} /\ energy.val[0] = W(7200) /\ energy.freq = Tick(HoursPerDay)

ScenarioHolds ==
    (Scenario /\ pc = "returned")
    => /\ dc_power = Constant(0..23, W(300))
       /\ result = Constant({0}, W(1))

\* C6 (as claimed): at every energy timestamp t that labels an interval of the
\* modeled power, normalize_with_pvwatts returns the energy at t divided by
\* the sum of the pvwatts_dc_power samples in the interval starting at t; the
\* nameplate scenario gives 300 W at all 24 points and a ratio of exactly 1.
C6_RatioOverIntervalStartingAt ==
    (op = "normalize_with_pvwatts" /\ pc = "returned")
    => /\ dc_power = PvwattsCall.out
       /\ \A t \in energy.idx \cap energy_dc.idx :
             result.val[t] = RatioOver(t, StartingAt(t))
       /\ ScenarioHolds

\* C6 (amended): the interval is the one starting at t for a frequency of a
\* fixed number of hours or days, and the one of the weeks ending with the day
\* t for a weekly frequency.
C6_RatioOverLabelledInterval ==
    (op = "normalize_with_pvwatts" /\ pc = "returned")
    => /\ dc_power = PvwattsCall.out
       /\ \A t \in energy.idx \cap energy_dc.idx :
             result.val[t] = RatioOver(t, IF freq.kind = "week"
                                          THEN EndingWithDay(t) ELSE StartingAt(t))
       /\ ScenarioHolds

C6_Witness ==
    /\ op = "normalize_with_pvwatts" /\ pc = "returned"
    /\ freq.kind = "week"
    /\ \E t \in energy.idx \cap energy_dc.idx :
          /\ IsNum(result.val[t]) /\ result.val[t] # Num(0)
          /\ Cardinality(EndingWithDay(t)) > 1
          /\ EndingWithDay(t) # StartingAt(t)

C6_ScenarioReached == Scenario /\ pc = "returned"

\* The samples at which the claim of C7 speaks: irradiance equal to G_stc,
\* G_stc and T_stc positive, and either no temperature argument or both with
\* the cell at T_stc.
AtReference(t) ==
    /\ pvwatts_kws.poa_global.val[t] = pvwatts_kws.G_stc
    /\ pvwatts_kws.G_stc.n > 0 /\ pvwatts_kws.T_stc.n > 0
    /\ \/ (pvwatts_kws.T_cell = NoneS /\ pvwatts_kws.gamma_pdc = NoneF)
       \/ /\ pvwatts_kws.T_cell # NoneS /\ pvwatts_kws.gamma_pdc # NoneF
          /\ pvwatts_kws.T_cell.val[t] = pvwatts_kws.T_stc

\* C7 (as claimed): at irradiance G_stc and temperature T_stc (or without
\* temperature arguments) pvwatts_dc_power returns exactly P_stc.
C7_NameplateAtReference ==
    (op = "pvwatts_dc_power" /\ Terminal)
    => /\ pc = "returned"
       /\ \A t \in pvwatts_kws.poa_global.idx :
             AtReference(t) => result.val[t] = pvwatts_kws.P_stc

\* The product P_stc * G_stc is a value of the floating-point format.
ProductExact == Exact(pvwatts_kws.P_stc.n * pvwatts_kws.G_stc.n, Scale)

\* C7 (amended): ... returns exactly P_stc when the product P_stc * G_stc is
\* computed without rounding; when it is rounded the result may miss P_stc.
C7_NameplateWhenProductExact ==
    (op = "pvwatts_dc_power" /\ Terminal)
    => /\ pc = "returned"
       /\ \A t \in pvwatts_kws.poa_global.idx :
             (AtReference(t) /\ ProductExact) => result.val[t] = pvwatts_kws.P_stc

C7_Witness ==
    /\ op = "pvwatts_dc_power" /\ pc = "returned" /\ ProductExact
    /\ pvwatts_kws.T_cell # NoneS /\ pvwatts_kws.gamma_pdc # NoneF
    /\ pvwatts_kws.P_stc # pvwatts_kws.G_stc
    /\ \E t \in pvwatts_kws.poa_global.idx :
          AtReference(t) /\ result.val[t] = pvwatts_kws.P_stc

\* The scale factors of C8.
ScaleFactors == {W(2), W(3), WQ(0, 2), WQ(1, 2)}

NoTemperature == pvwatts_kws.T_cell = NoneS /\ pvwatts_kws.gamma_pdc = NoneF

Scaled(k) ==
    pvwatts_dc_power(ScalarMul(k, pvwatts_kws.poa_global), pvwatts_kws.P_stc, NoneS,
                     pvwatts_kws.G_stc, pvwatts_kws.T_stc, NoneF).out

\* C8 (as claimed): without temperature arguments,
\* pvwatts_dc_power(k * poa) = k * pvwatts_dc_power(poa) at every sample.
C8_LinearInIrradiance ==
    (op = "pvwatts_dc_power" /\ pc = "returned" /\ NoTemperature)
    => \A k \in ScaleFactors : Scaled(k) = ScalarMul(k, result)

\* No operation of either side rounds at the sample t: k * poa, P_stc * poa,
\* P_stc * (k * poa), the two quotients by G_stc and k * dc_power are values of
\* the floating-point format.
NothingRounds(k, t) ==
    LET poa == pvwatts_kws.poa_global.val[t].n
        P == pvwatts_kws.P_stc.n
        G == pvwatts_kws.G_stc.n
    IN  /\ Exact(k.n * poa, Scale)
        /\ Exact(P * poa, Scale)
        /\ Exact(P * poa, G)
        /\ Exact(P * k.n * poa, Scale * Scale)
        /\ Exact(P * k.n * poa, Scale * G)

\* C8 (amended): ... at every sample where no operation of either side
\* rounds; where one does, the two sides may differ by the rounding.
C8_LinearWhereNothingRounds ==
    (op = "pvwatts_dc_power" /\ pc = "returned" /\ NoTemperature)
    => \A k \in ScaleFactors : \A t \in result.idx :
          NothingRounds(k, t) => Scaled(k).val[t] = FMul(k, result.val[t])

C8_Witness ==
    /\ op = "pvwatts_dc_power" /\ pc = "returned" /\ NoTemperature
    /\ \E k \in ScaleFactors : \E t \in result.idx :
          /\ NothingRounds(k, t)
          /\ result.val[t] # Num(0)
          /\ Scaled(k).val[t] = FMul(k, result.val[t])
          /\ Scaled(k).val[t] # result.val[t]

\* A call of sapm_dc_power has returned: made by the user, or inside
\* normalize_with_sapm.
SapmReturned ==
    \/ op = "sapm_dc_power" /\ pc = "returned"
    \/ op = "normalize_with_sapm" /\ pc \in {"dc", "resampled", "returned"}
    \/ op = "normalize_with_sapm" /\ raised_at = "resample"

SapmOutput == IF op = "sapm_dc_power" THEN result ELSE dc_power

StageOrder ==
    <<"get_solarposition", "get_poa_global", "get_aoi", "get_airmass",
      "sapm_effective_poa_global", "sapm_celltemp", "pvwatts_dc">>

\* The arguments of the call are inputs of sapm_dc_power or outputs of calls
\* made before it.
ConsumesEarlierOutputs(i) ==
    \A j \in 1..Len(calls[i].args) :
        \/ calls[i].args[j].src \in {"poa_global", "pvlib_pvsystem"}
        \/ \E h \in 1..(i - 1) : calls[h].out = calls[i].args[j].src

\* C9: when sapm_dc_power returns, the modeling operations were invoked once
\* each in the order solar position, plane-of-array irradiance, angle of
\* incidence, air mass (Kasten-Young 1989), effective irradiance (reference
\* 1), cell temperature, DC power; none before the stages whose outputs it
\* consumes; and the returned series is what the DC power stage gave for the
\* effective irradiance and the cell temperature of this call.
C9_PipelineOrder ==
    SapmReturned
    => /\ [i \in 1..Len(calls) |-> calls[i].op] = StageOrder
       /\ \A i \in 1..Len(calls) : ConsumesEarlierOutputs(i)
       /\ calls[4].param = "model=kastenyoung1989"
       /\ calls[5].param = "reference_poa_global=1"
       /\ calls[5].out = "effective_poa" /\ calls[6].out = "temp_cell"
       /\ calls[7].args = <<Arg("effective_poa", ""), Arg("temp_cell", "temp_cell")>>
       /\ SapmOutput = Constant(sapm_kws.poa_global.idx,
                                sapm_kws.pvlib_pvsystem.pvwatts_dc)

C9_Witness ==
    /\ op = "sapm_dc_power" /\ pc = "returned"
    /\ Len(calls) = 7
    /\ result = Constant(sapm_kws.poa_global.idx, W(300))

\* C10: with any of the columns DNI, GHI, DHI, Wind Speed, Temperature missing
\* from the frame, sapm_dc_power and normalize_with_sapm end raised, and no DC
\* power series and no normalized series is returned, whichever column it is
\* and however many stages ran before it was read.
C10_MissingColumnRaises ==
    (op \in {"sapm_dc_power", "normalize_with_sapm"} /\ Terminal
       /\ sapm_kws.poa_global.cols # Columns)
    => /\ pc = "raised"
       /\ result = NoneS
       /\ dc_power = NoneS
       /\ Len(calls) < Len(StageOrder)

C10_Witness ==
    /\ op = "normalize_with_sapm" /\ pc = "raised" /\ raised_at = "dc"
    /\ sapm_kws.poa_global.cols = Columns \ {"Temperature"}
    /\ sapm_kws.pvlib_pvsystem.module
    /\ Len(calls) = 5

=============================================================================
